---- MODULE Spec2Model ----
(***************************************************************************)
(* A model of fantasypros_scrape.py: the selector parser                   *)
(* parse_range_or_all, the table extraction of fetch_week_data, the        *)
(* per-pair loop of scrape and the driver main.                            *)
(*                                                                         *)
(* Texts that the code inspects character by character (selectors, cell    *)
(* and header texts) are sequences of one-character strings; texts that    *)
(* the code only compares or lower-cases are strings.                      *)
(***************************************************************************)
EXTENDS Integers, Sequences, FiniteSets, TLC

VARIABLES
    pc,          \* position of the run: which statement comes next
    caller,      \* "main": python fantasypros_scrape.py; "direct": scrape(...) called as a function
    args,        \* argparse namespace: position, year, week, output, format
    positions,   \* main: resolved position list
    years,       \* main: resolved year list
    mweeks,      \* main: resolved week list
    pair,        \* main: index of the next (position, year) pair, positions outer
    call,        \* scrape's parameters: position, year, weeks, output_dir, file_format
    wi,          \* scrape: index into weeks of the next iteration
    all_weeks,   \* scrape: list of the non-empty weekly frames
    fs,          \* file system: paths of the files that exist
    dirs,        \* file system: directories that exist
    net,         \* last network-relevant event: none, a request, or a sleep
    attempts,    \* per scrape call: one entry per call of fetch_week_data
    wrote,       \* per scrape call: the files serialized so far, path and content
    report,      \* per scrape call: the final print of scrape
    error,       \* the exception that ended the run, or "none"
    value,       \* selector parsing alone: the selector
    full_range,  \* selector parsing alone: the default range
    result,      \* selector parsing alone: outcome of parse_range_or_all
    response,    \* table extraction alone: the HTTP response
    fweek,       \* table extraction alone: the week and year asked for
    fresult      \* table extraction alone: outcome of fetch_week_data

vars == <<pc, caller, args, positions, years, mweeks, pair, call, wi, all_weeks,
          fs, dirs, net, attempts, wrote, report, error,
          value, full_range, result, response, fweek, fresult>>

progVars == <<pc, caller, args, positions, years, mweeks, pair, call, wi, all_weeks,
              fs, dirs, net, attempts, wrote, report, error>>
parseVars == <<value, full_range, result>>
fetchVars == <<response, fweek, fresult>>

(***************************************************************************)
(* Bounds of the model.                                                    *)
(***************************************************************************)
NumPositions == 2    \* how many of the six position codes the model keeps
CurrentYear == 2004  \* dt.now().year
WeekStop == 3        \* stop of the default week range (18 in the source)
MaxWeeks == 2        \* length of the weeks list of a direct scrape call
MaxSelLen == 3       \* characters of a selector
MaxBodyRows == 2     \* <tr> after the first one
MaxCols == 2         \* <th> of the first <tr>, <td> of any <tr>

(***************************************************************************)
(* Program constants.                                                      *)
(***************************************************************************)
HTTP_OK == 200
FirstYear == 2002
FirstWeek == 1
PauseLow == 1000     \* ran.uniform(1.0, 2.0), in milliseconds
PauseHigh == 2000

SixPositions == <<"qb", "rb", "wr", "te", "k", "dst">>
ALL_POSITIONS == SubSeq(SixPositions, 1, NumPositions)
FORMAT_CHOICES == {"csv", "parquet", "json"}

Elems(s) == {s[i] : i \in 1..Len(s)}

\* Sequences over S of length lo..hi
SeqsOf(S, lo, hi) == UNION {[1..n -> S] : n \in lo..hi}

(***************************************************************************)
(* str.lower() on the texts the model uses.                                *)
(***************************************************************************)
Lower(s) ==
    CASE s = "QB" -> "qb"
      [] s = "ALL" -> "all"
      [] s = "CSV" -> "csv"
      [] s = "Json" -> "json"
      [] OTHER -> s

(***************************************************************************)
(* parse_range_or_all (lines 77-84).                                       *)
(***************************************************************************)
ALL == <<"a", "l", "l">>
Digits == {"0", "1", "2", "3", "4", "5", "6", "7", "8", "9"}

DigitVal(c) ==
    CASE c = "0" -> 0 [] c = "1" -> 1 [] c = "2" -> 2 [] c = "3" -> 3
      [] c = "4" -> 4 [] c = "5" -> 5 [] c = "6" -> 6 [] c = "7" -> 7
      [] c = "8" -> 8 [] c = "9" -> 9

\* int(s) succeeds on the texts of the model (digits, "-", letters) exactly
\* when s is a non-empty digit string; a "-" never reaches int here, since
\* the text was split on it.
IntOK(s) == Len(s) > 0 /\ \A i \in 1..Len(s) : s[i] \in Digits

RECURSIVE IntVal(_)
IntVal(s) ==
    IF Len(s) = 0 THEN 0
    ELSE IntVal(SubSeq(s, 1, Len(s) - 1)) * 10 + DigitVal(s[Len(s)])

\* "-" in value
HasDash(s) == \E i \in 1..Len(s) : s[i] = "-"

\* value.split("-")
RECURSIVE SplitFrom(_, _)
SplitFrom(s, cur) ==
    IF Len(s) = 0 THEN <<cur>>
    ELSE IF Head(s) = "-" THEN <<cur>> \o SplitFrom(Tail(s), <<>>)
    ELSE SplitFrom(Tail(s), Append(cur, Head(s)))

Split(s) == SplitFrom(s, <<>>)

\* range inverted instead of empty when the end precedes the start
RangeInverting(start, stop) ==
    IF stop <= start THEN [i \in 1..(start - stop + 2) |-> stop - 2 + i]
    ELSE [i \in 1..(stop - start) |-> start + i - 1]

\* list(range(start, stop))
Range(start, stop) ==
    IF stop <= start THEN <<>> ELSE [i \in 1..(stop - start) |-> start + i - 1]

\* the ValueError of int() or of the two-name unpacking
parse_raises(v) ==
    /\ v # ALL
    /\ IF HasDash(v)
       THEN \/ Len(Split(v)) # 2
            \/ \E i \in 1..Len(Split(v)) : ~IntOK(Split(v)[i])
       ELSE ~IntOK(v)

\* the range branch with an exclusive end
ParseExclusiveEnd(v, full) ==
    IF v = ALL THEN full
    ELSE IF HasDash(v)
         THEN Range(IntVal(Split(v)[1]), IntVal(Split(v)[2]))
         ELSE <<IntVal(v)>>

parse_range_or_all(v, full) ==
    IF v = ALL THEN full
    ELSE IF HasDash(v)
         THEN Range(IntVal(Split(v)[1]), IntVal(Split(v)[2]) + 1)
         ELSE <<IntVal(v)>>

(***************************************************************************)
(* fetch_week_data (lines 14-42).                                          *)
(* A response either raises in r.get, or carries a status code and a page; *)
(* the page holds at most one table with id "data", a list of <tr>, each   *)
(* with the raw texts of its <th> and of its <td>.                         *)
(***************************************************************************)
RECURSIVE LStrip(_)
LStrip(s) == IF Len(s) > 0 /\ Head(s) = " " THEN LStrip(Tail(s)) ELSE s

RECURSIVE RStrip(_)
RStrip(s) ==
    IF Len(s) > 0 /\ s[Len(s)] = " " THEN RStrip(SubSeq(s, 1, Len(s) - 1)) ELSE s

\* element.get_text(strip=True) of an element holding one string
get_text(raw) == RStrip(LStrip(raw))

RECURSIVE find_all_th(_)
find_all_th(trs) ==
    IF Len(trs) = 0 THEN <<>> ELSE Head(trs).th \o find_all_th(Tail(trs))

\* line 29
Headers(trs) ==
    LET ths == find_all_th(trs) IN [i \in 1..Len(ths) |-> get_text(ths[i])]

\* line 32
Cells(tr) == [i \in 1..Len(tr.td) |-> get_text(tr.td[i])]

\* line 33 without the test that the row has cells
KeepRowAnyCount(cells, headers) == Len(cells) = Len(headers)

\* line 33
KeepRow(cells, headers) == Len(cells) > 0 /\ Len(cells) = Len(headers)

\* lines 30-34, over table.find_all("tr")[1:]
RECURSIVE CollectRows(_, _)
CollectRows(trs, headers) ==
    IF Len(trs) = 0 THEN <<>>
    ELSE (IF KeepRow(Cells(Head(trs)), headers) THEN <<Cells(Head(trs))>> ELSE <<>>)
         \o CollectRows(Tail(trs), headers)

\* table.find_all("tr")[1:]
BodyRows(trs) == IF Len(trs) = 0 THEN <<>> ELSE Tail(trs)

\* pd.DataFrame()
EmptyDF == [columns |-> <<>>, rows |-> <<>>]

\* pd.DataFrame(rows, columns=headers)
DataFrame(rows, headers) == [columns |-> headers, rows |-> rows]

\* df.empty
IsEmpty(df) == Len(df.rows) = 0 \/ Len(df.columns) = 0

HasColumn(df, label) == \E i \in 1..Len(df.columns) : df.columns[i] = label

\* df.insert(0, label, v), for a label not yet a column
Insert0(df, label, v) ==
    [columns |-> <<label>> \o df.columns,
     rows |-> [i \in 1..Len(df.rows) |-> <<v>> \o df.rows[i]]]

WEEK == <<"week">>
YEAR == <<"year">>

Raised == [raised |-> TRUE, df |-> EmptyDF]
Returned(df) == [raised |-> FALSE, df |-> df]

\* lines 39-42; DataFrame.insert raises ValueError for a label that is
\* already a column
TagFrame(df, week, year) ==
    IF HasColumn(df, WEEK) THEN Raised
    ELSE IF HasColumn(Insert0(df, WEEK, week), YEAR) THEN Raised
    ELSE Returned(Insert0(Insert0(df, WEEK, week), YEAR, year))

fetch_week_data(resp, week, year) ==
    IF resp.raises THEN Raised
    ELSE IF resp.status_code # HTTP_OK THEN Returned(EmptyDF)
    ELSE IF ~resp.found THEN Returned(EmptyDF)
    ELSE LET headers == Headers(resp.trs)
             rows == CollectRows(BodyRows(resp.trs), headers)
         IN  IF Len(rows) = 0 THEN Returned(EmptyDF)
             ELSE TagFrame(DataFrame(rows, headers), week, year)

(***************************************************************************)
(* Idle values of the parts a specification does not use.                  *)
(***************************************************************************)
NoArgs == [position |-> "all", year |-> ALL, week |-> ALL, output |-> "data",
           format |-> "csv"]
NoCall == [position |-> "", year |-> 0, weeks |-> <<>>, output_dir |-> "",
           file_format |-> ""]
NoReport == [msg |-> "none", n |-> 0, path |-> <<>>]
NoResult == [done |-> FALSE, raised |-> FALSE, val |-> <<>>]
NoResponse == [raises |-> FALSE, status_code |-> HTTP_OK, found |-> FALSE, trs |-> <<>>]
NoFetch == [done |-> FALSE, raised |-> FALSE, df |-> EmptyDF]

ProgIdle ==
    /\ pc = "idle" /\ caller = "none" /\ args = NoArgs
    /\ positions = <<>> /\ years = <<>> /\ mweeks = <<>> /\ pair = 0
    /\ call = NoCall /\ wi = 0 /\ all_weeks = <<>>
    /\ fs = {} /\ dirs = {} /\ net = [ev |-> "none", ms |-> 0]
    /\ attempts = <<>> /\ wrote = <<>> /\ report = NoReport /\ error = "none"

ParseIdle == value = ALL /\ full_range = <<>> /\ result = NoResult
FetchIdle == response = NoResponse /\ fweek = <<0, 0>> /\ fresult = NoFetch

(***************************************************************************)
(* Selector parsing alone: every selector of at most MaxSelLen characters  *)
(* over SelChars, and "all", against several default ranges.               *)
(***************************************************************************)
SelChars == {"0", "3", "6", "-", "x"}
Selectors == {ALL} \cup SeqsOf(SelChars, 1, MaxSelLen)
FullRanges == {<<>>, Range(FirstWeek, WeekStop), <<7, 5, 6>>,
               Range(FirstYear, CurrentYear - 1)}

ParseInit ==
    /\ ProgIdle /\ FetchIdle
    /\ value \in Selectors
    /\ full_range \in FullRanges
    /\ result = NoResult

Resolve ==
    /\ ~result.done
    /\ result' = IF parse_raises(value)
                 THEN [done |-> TRUE, raised |-> TRUE, val |-> <<>>]
                 ELSE [done |-> TRUE, raised |-> FALSE,
                       val |-> parse_range_or_all(value, full_range)]
    /\ UNCHANGED <<value, full_range>>
    /\ UNCHANGED progVars
    /\ UNCHANGED fetchVars

ParseNext == Resolve
SpecParse == ParseInit /\ [][ParseNext]_vars

(***************************************************************************)
(* Table extraction alone: fetch_week_data on every response whose table   *)
(* has a first <tr> and at most MaxBodyRows further <tr>.                  *)
(***************************************************************************)
HeaderPatterns == {<< <<"A">>, <<"B", " ">>, <<" ", "C">> >>,
                   << <<" ", "week">>, <<"A">>, <<"B">> >>,
                   << <<"A">>, <<"year", " ">>, <<"B">> >>}
ThLists == {SubSeq(p, 1, n) : p \in HeaderPatterns, n \in 0..MaxCols}
CellPatterns == {<< <<"1">>, <<" ", "2">>, <<"3", " ">>, <<"4">> >>,
                 << <<" ", "x", " ">>, <<"y">>, <<"z">>, <<" ", "w">> >>}
TdLists == {SubSeq(p, 1, n) : p \in CellPatterns, n \in 0..MaxCols}
FirstTrs == [th : ThLists, td : {<<>>, << <<"9">> >>}]
BodyTrs == [th : {<<>>, << <<"A">> >>}, td : TdLists]
Tables == {<<>>} \cup
          {<<first>> \o body : first \in FirstTrs, body \in SeqsOf(BodyTrs, 0, MaxBodyRows)}

FetchResponses ==
    {[raises |-> TRUE, status_code |-> 0, found |-> FALSE, trs |-> <<>>],
     [raises |-> FALSE, status_code |-> 404, found |-> FALSE, trs |-> <<>>],
     [raises |-> FALSE, status_code |-> HTTP_OK, found |-> FALSE, trs |-> <<>>]}
    \cup {[raises |-> FALSE, status_code |-> HTTP_OK, found |-> TRUE, trs |-> t] : t \in Tables}

FetchInit ==
    /\ ProgIdle /\ ParseIdle
    /\ response \in FetchResponses
    /\ fweek = <<3, 2023>>
    /\ fresult = NoFetch

FetchApply ==
    /\ ~fresult.done
    /\ LET r == fetch_week_data(response, fweek[1], fweek[2])
       IN  fresult' = [done |-> TRUE, raised |-> r.raised, df |-> r.df]
    /\ UNCHANGED <<response, fweek>>
    /\ UNCHANGED progVars
    /\ UNCHANGED parseVars

FetchNext == FetchApply
SpecFetch == FetchInit /\ [][FetchNext]_vars

(***************************************************************************)
(* pd.concat(all_weeks, ignore_index=True) (line 59): the columns are the  *)
(* ordered union of the frames' columns, a frame's rows are re-indexed to  *)
(* them (NaN where the frame lacks the column), rows in frame order.       *)
(***************************************************************************)
NaN == <<"NaN">>

RECURSIVE AddNew(_, _)
AddNew(acc, cols) ==
    IF Len(cols) = 0 THEN acc
    ELSE AddNew(IF Head(cols) \in Elems(acc) THEN acc ELSE Append(acc, Head(cols)),
                Tail(cols))

RECURSIVE UnionCols(_, _)
UnionCols(acc, frames) ==
    IF Len(frames) = 0 THEN acc
    ELSE UnionCols(AddNew(acc, Head(frames).columns), Tail(frames))

IndexOf(cols, c) == CHOOSE i \in 1..Len(cols) : cols[i] = c

Reindex(df, cols) ==
    [i \in 1..Len(df.rows) |->
        [j \in 1..Len(cols) |->
            IF HasColumn(df, cols[j]) THEN df.rows[i][IndexOf(df.columns, cols[j])]
            ELSE NaN]]

RECURSIVE StackRows(_, _)
StackRows(frames, cols) ==
    IF Len(frames) = 0 THEN <<>>
    ELSE Reindex(Head(frames), cols) \o StackRows(Tail(frames), cols)

\* concat that stacks the frames last to first
RECURSIVE StackRowsReversed(_, _)
StackRowsReversed(frames, cols) ==
    IF Len(frames) = 0 THEN <<>>
    ELSE StackRowsReversed(Tail(frames), cols) \o Reindex(Head(frames), cols)

ConcatReversed(frames) ==
    [columns |-> UnionCols(<<>>, frames),
     rows |-> StackRowsReversed(frames, UnionCols(<<>>, frames))]

concat(frames) ==
    [columns |-> UnionCols(<<>>, frames),
     rows |-> StackRows(frames, UnionCols(<<>>, frames))]

(***************************************************************************)
(* The run: main (lines 87-119) and scrape (lines 45-74).                  *)
(***************************************************************************)
\* what the remote server can answer to one request
RawA == <<"A">>
RawB == <<" ", "B", " ">>
TrHead == [th |-> <<RawA, RawB>>, td |-> <<>>]
TrGood1 == [th |-> <<>>, td |-> << <<"1">>, <<" ", "2">> >>]
TrShort == [th |-> <<>>, td |-> << <<"x">> >>]
TrGood2 == [th |-> <<>>, td |-> << <<"3">>, <<"4">> >>]
Page(trs) == [raises |-> FALSE, status_code |-> HTTP_OK, found |-> TRUE, trs |-> trs]
RespRaise == [raises |-> TRUE, status_code |-> 0, found |-> FALSE, trs |-> <<>>]
Resp404 == [raises |-> FALSE, status_code |-> 404, found |-> FALSE, trs |-> <<>>]
RespNoTable == [raises |-> FALSE, status_code |-> HTTP_OK, found |-> FALSE, trs |-> <<>>]
RespData == Page(<<TrHead, TrGood1, TrShort, TrGood2>>)
RespMalformed == Page(<<TrHead, TrShort>>)
RespCollide == Page(<<[th |-> <<RawA, <<"week">> >>, td |-> <<>>], TrGood1>>)
ProgResponses == {RespRaise, Resp404, RespNoTable, RespData, RespMalformed, RespCollide}

MainPositionArgs == {"all", "qb", "QB", "rb", "xx", "ALL"}
MainSelectors == {ALL, <<"2">>, <<"1", "-", "2">>, <<"6", "-", "3">>, <<"x">>,
                  <<"1", "-">>, <<"1", "-", "2", "-", "3">>}
MainFormats == {"csv", "parquet", "json", "xml"}
DirectFormats == {"csv", "parquet", "json", "CSV", "xml"}
DirectWeekLists == SeqsOf(FirstWeek..2, 0, MaxWeeks)

NoNet == [ev |-> "none", ms |-> 0]

MainInit ==
    /\ caller = "main"
    /\ pc = "parse_args"
    /\ args \in [position : MainPositionArgs, year : MainSelectors, week : MainSelectors,
                 output : {"data"}, format : MainFormats]
    /\ call = NoCall /\ wi = 0

DirectInit ==
    /\ caller = "direct"
    /\ pc = "loop"
    /\ args = NoArgs
    /\ call \in [position : {"qb"}, year : {2023}, weeks : DirectWeekLists,
                 output_dir : {"data"}, file_format : DirectFormats]
    /\ wi = 1

Init ==
    /\ ParseIdle /\ FetchIdle
    /\ MainInit \/ DirectInit
    /\ positions = <<>> /\ years = <<>> /\ mweeks = <<>> /\ pair = 0
    /\ all_weeks = <<>>
    /\ fs = {} /\ dirs = {} /\ net = NoNet
    /\ attempts = <<>> /\ wrote = <<>> /\ report = NoReport /\ error = "none"

\* line 101: argparse rejects a --format outside choices (line 98)
ParseArgs ==
    /\ pc = "parse_args"
    /\ IF args.format \in FORMAT_CHOICES
       THEN pc' = "positions" /\ error' = error
       ELSE pc' = "exit" /\ error' = "SystemExit"
    /\ UNCHANGED <<caller, args, positions, years, mweeks, pair, call, wi, all_weeks,
                   fs, dirs, net, attempts, wrote, report>>
    /\ UNCHANGED parseVars /\ UNCHANGED fetchVars

\* lines 105-107 with the check left out
ValidPositionsSkipped(ps) == TRUE

\* lines 105-107
ValidPositions(ps) == \A i \in 1..Len(ps) : ps[i] \in Elems(ALL_POSITIONS)

\* line 104
ResolvePositions(p) == IF p = "all" THEN ALL_POSITIONS ELSE <<Lower(p)>>

MainPositions ==
    /\ pc = "positions"
    /\ positions' = ResolvePositions(args.position)
    /\ IF ValidPositions(positions')
       THEN pc' = "years" /\ error' = error
       ELSE pc' = "exit" /\ error' = "ValueError"
    /\ UNCHANGED <<caller, args, years, mweeks, pair, call, wi, all_weeks,
                   fs, dirs, net, attempts, wrote, report>>
    /\ UNCHANGED parseVars /\ UNCHANGED fetchVars

\* line 110
full_years == Range(FirstYear, CurrentYear - 1)

\* lines 110-111
MainYears ==
    /\ pc = "years"
    /\ IF parse_raises(args.year)
       THEN pc' = "exit" /\ error' = "ValueError" /\ years' = years
       ELSE pc' = "weeks" /\ error' = error
            /\ years' = parse_range_or_all(args.year, full_years)
    /\ UNCHANGED <<caller, args, positions, mweeks, pair, call, wi, all_weeks,
                   fs, dirs, net, attempts, wrote, report>>
    /\ UNCHANGED parseVars /\ UNCHANGED fetchVars

\* line 114
MainWeeks ==
    /\ pc = "weeks"
    /\ IF parse_raises(args.week)
       THEN pc' = "exit" /\ error' = "ValueError" /\ mweeks' = mweeks /\ pair' = pair
       ELSE pc' = "pairs" /\ error' = error /\ pair' = 1
            /\ mweeks' = parse_range_or_all(args.week, Range(FirstWeek, WeekStop))
    /\ UNCHANGED <<caller, args, positions, years, call, wi, all_weeks,
                   fs, dirs, net, attempts, wrote, report>>
    /\ UNCHANGED parseVars /\ UNCHANGED fetchVars

\* lines 117-118: the pairs in the order of the nested loops
NumPairs == Len(positions) * Len(years)
PairPosition(k) == positions[((k - 1) \div Len(years)) + 1]
PairYear(k) == years[((k - 1) % Len(years)) + 1]

\* line 119, and lines 46-47 of the callee
MainCallScrape ==
    /\ pc = "pairs"
    /\ pair <= NumPairs
    /\ call' = [position |-> PairPosition(pair), year |-> PairYear(pair),
                weeks |-> mweeks, output_dir |-> args.output,
                file_format |-> args.format]
    /\ wi' = 1
    /\ all_weeks' = <<>>
    /\ attempts' = <<>> /\ wrote' = <<>> /\ report' = NoReport
    /\ pc' = "loop"
    /\ UNCHANGED <<caller, args, positions, years, mweeks, pair, fs, dirs, net, error>>
    /\ UNCHANGED parseVars /\ UNCHANGED fetchVars

\* the loops of lines 117-118 are exhausted: main returns
MainExit ==
    /\ pc = "pairs"
    /\ pair > NumPairs
    /\ pc' = "exit"
    /\ UNCHANGED <<caller, args, positions, years, mweeks, pair, call, wi, all_weeks,
                   fs, dirs, net, attempts, wrote, report, error>>
    /\ UNCHANGED parseVars /\ UNCHANGED fetchVars

\* the for loop of line 49 left after the first week
LoopDoneEarly == wi > 1 \/ wi > Len(call.weeks)

\* line 49: the weeks are exhausted
LoopDone == wi > Len(call.weeks)

\* an exception of the loop body that leaves scrape
AfterRaiseEscapes(i) == [pc |-> "exit", wi |-> i, error |-> "Exception"]

\* lines 55-56: the exception is caught, printed, and the loop goes on
AfterRaise(i) == [pc |-> "loop", wi |-> i + 1, error |-> "none"]

\* lines 50-53, 55-56: one request and its extraction
FetchWeek ==
    /\ pc = "loop"
    /\ ~LoopDone
    /\ \E resp \in ProgResponses :
          LET week == call.weeks[wi]
              r == fetch_week_data(resp, week, call.year)
          IN  /\ net' = [ev |-> "request", ms |-> 0]
              /\ attempts' = Append(attempts, [week |-> week, raised |-> r.raised,
                                                  df |-> r.df])
              /\ IF r.raised
                 THEN /\ pc' = AfterRaise(wi).pc
                      /\ wi' = AfterRaise(wi).wi
                      /\ error' = (IF AfterRaise(wi).error = "none" THEN error
                                   ELSE AfterRaise(wi).error)
                      /\ all_weeks' = all_weeks
                 ELSE /\ pc' = "sleep"
                      /\ wi' = wi
                      /\ error' = error
                      /\ all_weeks' = (IF ~IsEmpty(r.df) THEN Append(all_weeks, r.df)
                                       ELSE all_weeks)
    /\ UNCHANGED <<caller, args, positions, years, mweeks, pair, call, fs, dirs,
                   wrote, report>>
    /\ UNCHANGED parseVars /\ UNCHANGED fetchVars

\* line 54
Sleep ==
    /\ pc = "sleep"
    /\ \E ms \in {PauseLow, PauseHigh} : net' = [ev |-> "sleep", ms |-> ms]
    /\ wi' = wi + 1
    /\ pc' = "loop"
    /\ UNCHANGED <<caller, args, positions, years, mweeks, pair, call, all_weeks,
                   fs, dirs, attempts, wrote, report, error>>
    /\ UNCHANGED parseVars /\ UNCHANGED fetchVars

\* lines 60, 62-63
OutDir == <<call.output_dir, call.position>>
Ext == Lower(call.file_format)
OutputPath == [dir |-> OutDir, file |-> <<call.position, call.year, Ext>>]

\* lines 58-74
Save ==
    /\ pc = "loop"
    /\ LoopDone
    /\ IF Len(all_weeks) > 0
       THEN LET year_df == concat(all_weeks)
            IN  /\ dirs' = dirs \cup {OutDir}
                /\ IF Ext \in FORMAT_CHOICES
                   THEN /\ fs' = fs \cup {OutputPath}
                        /\ wrote' = Append(wrote, [path |-> OutputPath, format |-> Ext,
                                                   data |-> year_df])
                   ELSE fs' = fs /\ wrote' = wrote
                /\ report' = [msg |-> "saved", n |-> Len(year_df.rows),
                              path |-> OutputPath]
       ELSE /\ report' = [msg |-> "no data", n |-> 0, path |-> <<>>]
            /\ UNCHANGED <<fs, dirs, wrote>>
    /\ pc' = "returned"
    /\ UNCHANGED <<caller, args, positions, years, mweeks, pair, call, wi, all_weeks,
                   net, attempts, error>>
    /\ UNCHANGED parseVars /\ UNCHANGED fetchVars

\* scrape returns to line 118: the next pair
Return ==
    /\ pc = "returned"
    /\ caller = "main"
    /\ pair' = pair + 1
    /\ pc' = "pairs"
    /\ UNCHANGED <<caller, args, positions, years, mweeks, call, wi, all_weeks,
                   fs, dirs, net, attempts, wrote, report, error>>
    /\ UNCHANGED parseVars /\ UNCHANGED fetchVars

Next ==
    \/ ParseArgs
    \/ MainPositions
    \/ MainYears
    \/ MainWeeks
    \/ MainCallScrape
    \/ MainExit
    \/ FetchWeek
    \/ Sleep
    \/ Save
    \/ Return

Spec == Init /\ [][Next]_vars

(***************************************************************************)
(* Properties.                                                             *)
(***************************************************************************)
InScrape == pc \in {"loop", "sleep", "returned"}
AttemptedWeeks == [i \in 1..Len(attempts) |-> attempts[i].week]
SomeWeekYielded == \E i \in 1..Len(attempts) : Len(attempts[i].df.rows) > 0
WroteOutputFile == OutputPath \in fs /\ \E k \in 1..Len(wrote) : wrote[k].path = OutputPath

\* the rows of the attempts, stacked in the order of the attempts
RECURSIVE RowsOfAttempts(_)
RowsOfAttempts(as) ==
    IF Len(as) = 0 THEN <<>> ELSE Head(as).df.rows \o RowsOfAttempts(Tail(as))

\* the non-empty frames of the attempts, in the order of the attempts
RECURSIVE FramesOfAttempts(_)
FramesOfAttempts(as) ==
    IF Len(as) = 0 THEN <<>>
    ELSE (IF Len(Head(as).df.rows) > 0 THEN <<Head(as).df>> ELSE <<>>)
         \o FramesOfAttempts(Tail(as))

RECURSIVE SumRows(_)
SumRows(as) == IF Len(as) = 0 THEN 0 ELSE Len(Head(as).df.rows) + SumRows(Tail(as))

\* C1: once scrape has returned, the output file of the pair was written by
\* this call if and only if at least one week yielded a non-empty dataset.
C1_FileIffSomeWeekYielded ==
    pc = "returned" => (WroteOutputFile <=> SomeWeekYielded)

\* C2: the dataset scrape writes is the concatenation of the non-empty weekly
\* datasets in the order of the weeks list (ascending when main resolved the
\* list), rows in table order, each row tagged with the year and its own
\* week; the row count is the sum over the weeks.
C2_WrittenIsConcatenation ==
    /\ \A k \in 1..Len(wrote) :
          /\ wrote[k].data.rows = RowsOfAttempts(attempts)
          /\ Len(wrote[k].data.rows) = SumRows(attempts)
          /\ AttemptedWeeks = call.weeks
    /\ \A i \in 1..Len(attempts) : \A j \in 1..Len(attempts[i].df.rows) :
          /\ attempts[i].df.rows[j][1] = call.year
          /\ attempts[i].df.rows[j][2] = attempts[i].week
    /\ (caller = "main" /\ InScrape) =>
          \A i \in 1..Len(call.weeks) : \A j \in 1..Len(call.weeks) :
             i < j => call.weeks[i] < call.weeks[j]

\* weeks [1,2], week 1 yields rows and week 2 none: the file holds week 1's rows
C2_Witness ==
    /\ pc = "returned" /\ Len(wrote) = 1
    /\ call.weeks = <<1, 2>>
    /\ Len(attempts[1].df.rows) = 2 /\ Len(attempts[2].df.rows) = 0
    /\ Len(wrote[1].data.rows) = 2
    /\ \A j \in 1..2 : wrote[1].data.rows[j][2] = 1

\* C3: a failed fetch of a week (status, missing table, exception) never
\* leaves scrape and never stops the loop: every week is fetched exactly
\* once, in order, and the frames collected so far are kept.
C3_FailuresContained ==
    /\ Len(attempts) > 0 => error = "none"
    /\ InScrape => all_weeks = FramesOfAttempts(attempts)
    /\ InScrape => Len(attempts) <= Len(call.weeks)
    /\ InScrape => AttemptedWeeks = SubSeq(call.weeks, 1, Len(attempts))
    /\ pc = "returned" => AttemptedWeeks = call.weeks

\* week 1 yields rows, week 2 raises: scrape returns and keeps week 1's rows
C3_Witness ==
    /\ pc = "returned" /\ Len(attempts) = 2
    /\ Len(attempts[1].df.rows) > 0 /\ attempts[2].raised
    /\ Len(all_weeks) = 1 /\ Len(wrote) = 1

Unsupported(p) == p # "all" /\ Lower(p) \notin Elems(ALL_POSITIONS)
InvalidArgs ==
    Unsupported(args.position) \/ parse_raises(args.year) \/ parse_raises(args.week)

\* C4: in main, an unsupported position or a malformed year or week selector
\* raises before any request is issued and before any file or directory is
\* created; no run fetches and then fails validation.
C4_ValidationBeforeNetwork ==
    /\ (caller = "main" /\ InvalidArgs) =>
          /\ net.ev = "none" /\ attempts = <<>> /\ call = NoCall
          /\ fs = {} /\ dirs = {}
          /\ pc = "exit" => error # "none"
    /\ error # "none" => (net.ev = "none" /\ attempts = <<>> /\ fs = {} /\ dirs = {})

\* a malformed week selector, everything else valid: ValueError, nothing fetched
C4_Witness ==
    /\ pc = "exit" /\ error = "ValueError"
    /\ args.position = "all" /\ args.year = ALL /\ args.week = <<"1", "-">>

\* the number a digit string denotes, by positional weights
Pow10(n) == IF n = 0 THEN 1 ELSE IF n = 1 THEN 10 ELSE IF n = 2 THEN 100
            ELSE IF n = 3 THEN 1000 ELSE 10000
RECURSIVE Weighted(_, _)
Weighted(s, i) ==
    IF i > Len(s) THEN 0 ELSE DigitVal(s[i]) * Pow10(Len(s) - i) + Weighted(s, i + 1)
IsNumber(s) == Len(s) > 0 /\ \A i \in 1..Len(s) : s[i] \in Digits
DashAt(s, k) ==
    /\ s[k] = "-"
    /\ IsNumber(SubSeq(s, 1, k - 1))
    /\ IsNumber(SubSeq(s, k + 1, Len(s)))

\* C5: parse_range_or_all returns full_range unchanged for "all", [N] for the
\* decimal text of N, and A, A+1, ..., B for "A-B" with A <= B; only "all"
\* makes the result depend on full_range.
C5_ParseRange ==
    result.done =>
      /\ value = ALL => (~result.raised /\ result.val = full_range)
      /\ IsNumber(value) => (~result.raised /\ result.val = <<Weighted(value, 1)>>)
      /\ \A k \in 1..Len(value) :
            LET a == Weighted(SubSeq(value, 1, k - 1), 1)
                b == Weighted(SubSeq(value, k + 1, Len(value)), 1)
            IN  (DashAt(value, k) /\ a <= b) =>
                   /\ ~result.raised
                   /\ Len(result.val) = b - a + 1
                   /\ \A i \in 1..Len(result.val) : result.val[i] = a + i - 1
      /\ (value # ALL /\ ~result.raised) =>
            \A d \in FullRanges : parse_range_or_all(value, d) = result.val

\* "3-6" resolves to 3, 4, 5, 6
C5_Witness ==
    /\ result.done /\ value = <<"3", "-", "6">>
    /\ result.val = <<3, 4, 5, 6>> /\ full_range = <<7, 5, 6>>

\* header labels of a table, and its rows after the first with n cells
AllTh(trs) == find_all_th(trs)
HeaderLabels(trs) == [i \in 1..Len(AllTh(trs)) |-> get_text(AllTh(trs)[i])]
CellTexts(tr) == [i \in 1..Len(tr.td) |-> get_text(tr.td[i])]
RECURSIVE RowsWhere(_, _, _, _)
RowsWhere(trs, i, n, needCell) ==
    IF i > Len(trs) THEN <<>>
    ELSE (IF Len(trs[i].td) = n /\ (needCell => n > 0) THEN <<CellTexts(trs[i])>> ELSE <<>>)
         \o RowsWhere(trs, i + 1, n, needCell)
Tagged(rows) == [i \in 1..Len(rows) |-> <<fweek[2], fweek[1]>> \o rows[i]]
TableServed == ~response.raises /\ response.status_code = HTTP_OK /\ response.found

\* C6 as stated: with the table present, the rows emitted are exactly the
\* rows after the first whose cell count equals the header count.
C6_RowsWithHeaderCount ==
    (fresult.done /\ TableServed) =>
       LET h == HeaderLabels(response.trs)
           q == RowsWhere(response.trs, 2, Len(h), FALSE)
       IN  /\ ~fresult.raised
           /\ fresult.df.rows = Tagged(q)
           /\ Len(q) > 0 => fresult.df.columns = <<YEAR, WEEK>> \o h

\* C6 amended: the rows that qualify are the rows after the first that have
\* at least one cell and as many cells as the table has header labels. With
\* none qualifying the result is empty; with some qualifying and a header
\* label "week" or "year" the call raises and emits nothing; otherwise
\* exactly the qualifying rows are emitted, in table order, each under the
\* columns year, week and the header labels in order.
C6_RowsWithCellsAndHeaderCount ==
    (fresult.done /\ TableServed) =>
       LET h == HeaderLabels(response.trs)
           q == RowsWhere(response.trs, 2, Len(h), TRUE)
           clash == WEEK \in Elems(h) \/ YEAR \in Elems(h)
       IN  /\ fresult.raised <=> (Len(q) > 0 /\ clash)
           /\ (Len(q) = 0 \/ clash) => fresult.df = EmptyDF
           /\ (Len(q) > 0 /\ ~clash) =>
                 /\ fresult.df.columns = <<YEAR, WEEK>> \o h
                 /\ fresult.df.rows = Tagged(q)

\* header [A, B], rows [1, 2] and [x]: one row, from [1, 2]
C6_Witness ==
    /\ fresult.done /\ ~fresult.raised
    /\ response.trs = << [th |-> << <<"A">>, <<"B", " ">> >>, td |-> <<>>],
                         [th |-> <<>>, td |-> << <<"1">>, <<" ", "2">> >>],
                         [th |-> <<>>, td |-> << <<" ", "x", " ">> >>] >>
    /\ fresult.df.columns = <<YEAR, WEEK, <<"A">>, <<"B">> >>
    /\ fresult.df.rows = << <<2023, 3, <<"1">>, <<"2">> >> >>

\* C7: scrape writes the pair's file at most once, and only after a fetch was
\* attempted for every week: the file never exists while a week of the pair
\* is still to be fetched.
C7_WriteOnceAfterAllWeeks ==
    InScrape =>
       /\ Len(wrote) <= 1
       /\ (Len(wrote) > 0 \/ OutputPath \in fs) =>
             (Len(attempts) = Len(call.weeks) /\ pc = "returned")

\* two weeks fetched, then the one write
C7_Witness ==
    /\ pc = "returned" /\ Len(wrote) = 1 /\ OutputPath \in fs
    /\ Len(call.weeks) = 2 /\ Len(attempts) = 2

\* C8: whenever the run is about to issue a request, either it has issued
\* none before, or a pause of 1.0 to 2.0 seconds came after the last one.
C8_PauseBeforeNextRequest ==
    (pc = "loop" /\ wi <= Len(call.weeks)) =>
       \/ net.ev = "none"
       \/ net.ev = "sleep" /\ net.ms >= PauseLow /\ net.ms <= PauseHigh

IsReversed(sel) ==
    \E k \in 1..Len(sel) :
       /\ DashAt(sel, k)
       /\ Weighted(SubSeq(sel, 1, k - 1), 1) > Weighted(SubSeq(sel, k + 1, Len(sel)), 1)
OthersValid(sel) ==
    /\ ~Unsupported(args.position) /\ args.format \in FORMAT_CHOICES
    /\ ~parse_raises(sel)

\* C9: a selector "A-B" with A > B resolves to the empty sequence without an
\* error and without inverting the bounds; main with such a week selector
\* issues no request and writes no file, with such a year selector never
\* calls scrape, and ends without error either way.
C9_ReversedRangeIsEmpty ==
    caller = "main" =>
      /\ IsReversed(args.week) =>
            /\ ~parse_raises(args.week)
            /\ pc \in {"pairs", "loop", "sleep", "returned"} => mweeks = <<>>
            /\ net.ev = "none" /\ attempts = <<>> /\ fs = {} /\ wrote = <<>>
            /\ (pc = "exit" /\ OthersValid(args.year)) => error = "none"
      /\ IsReversed(args.year) =>
            /\ ~parse_raises(args.year)
            /\ pc \in {"weeks", "pairs"} => years = <<>>
            /\ call = NoCall /\ net.ev = "none" /\ fs = {}
            /\ (pc = "exit" /\ OthersValid(args.week)) => error = "none"

\* --week 6-3: scrape is called for a pair, fetches nothing, and main ends
C9_Witness ==
    /\ pc = "exit" /\ error = "none"
    /\ args.week = <<"6", "-", "3">> /\ args.year = <<"1", "-", "2">>
    /\ args.position = "all"
    /\ pair = (NumPositions * 2) + 1
    /\ report.msg = "no data" /\ mweeks = <<>>

\* C10: whenever scrape reports "Saved N rows" for a path, this call wrote a
\* file at that path, whatever the file_format argument.
C10_SavedMeansWritten ==
    report.msg = "saved" =>
       /\ report.path \in fs
       /\ \E k \in 1..Len(wrote) : wrote[k].path = report.path

====
